---- MODULE Spec2Model ----
(***************************************************************************)
(* Model of script.py (Spatic): the pairwise matching pass.               *)
(*                                                                         *)
(* main() loads the rows of the input file into `entries`, every row with  *)
(* is_similar = 0, and calls find_similar_entries(entries).  The driver    *)
(* coroutine enumerates the pairs (i, j), i < j, creates one asyncio task  *)
(* process_entries(i, j, entries) per pair and awaits asyncio.gather on    *)
(* the collected tasks every CHUNKS tasks, and once more after the loops.  *)
(*                                                                         *)
(* asyncio.create_task only schedules a task on the event loop: it runs    *)
(* when the driver is suspended in `await asyncio.gather(...)`.  The two   *)
(* awaits inside process_entries are awaits of plain coroutines that never *)
(* suspend, so one task runs from its first line to its return in one      *)
(* step.  The event loop runs ready tasks in creation order; the model     *)
(* lets the pending tasks run in any order, which includes that order.     *)
(*                                                                         *)
(* Indices are 0-based as in the source.  A name is a sequence of          *)
(* characters.  Coordinates are points of one meridian, the latitude given *)
(* in metres of arc from the origin, so that the great-circle distance of  *)
(* two points is the absolute difference of their latitudes.               *)
(*                                                                         *)
(* Spec and FairSpec are the matching pass on well-formed input.  MainSpec *)
(* is main from the confirmation prompt to its last message.  ErrSpec is   *)
(* the pass on input with a non-finite latitude, under a geopy that        *)
(* propagates nan and under one that raises.  IdemSpec applies             *)
(* process_entries to any pair of any dataset with any flags.              *)
(***************************************************************************)
EXTENDS Integers, Sequences, FiniteSets, TLC

\* ---------------------------------------------------------------- bounds
\* largest dataset length explored
MaxN == 4
\* largest batch size explored (the source sets CHUNKS = 100000)
MaxChunks == 4
\* largest dataset length explored for a whole run of main
MaxMainN == 3
\* largest dataset length explored for repeated runs of process_entries
MaxIdemN == 3
\* largest dataset length explored with a non-finite coordinate in the input
MaxErrN == 3

\* ------------------------------------------------------ program constants
MAX_DISTANCE == 200
MAX_EDITS == 5

VARIABLES
    entries,   \* main: the list of rows, index -> [name, latitude, longitude, is_similar]
    CHUNKS,    \* the batch size (module constant of the source), fixed in Init
    n,         \* find_similar_entries: n = len(entries)
    tasks,     \* find_similar_entries: the list of tasks of the current batch
    counter,   \* find_similar_entries: tasks created since the last gather
    i,         \* outer loop index
    j,         \* inner loop index
    pc,        \* position of the driver coroutine
    created,   \* every task handed to the event loop so far: [p |-> <<i, j>>, b |-> batch]
    executed,  \* the tasks of `created` that have run to completion
    entered,   \* the rows whose pruning check found is_similar = 0
    batchNo,   \* number of gathers the driver has returned from
    ncreated,  \* number of asyncio.create_task calls so far
    skipped,   \* the rows whose pruning check found is_similar = 1
    failed,    \* the tasks of `executed` that ended with an exception
    geopyRaises, \* the installed geopy rejects a non-finite coordinate (geopy 2)
    infile,    \* main: the rows of the input file, index -> <<name, latitude, longitude>>
    proceed,   \* main: the last answer to the confirmation prompt
    outfile,   \* main: the rows written to the output file so far
    printed    \* main: the messages printed after the matching pass

vars == << entries, CHUNKS, n, tasks, counter, i, j, pc,
           created, executed, entered, batchNo,
           ncreated, skipped, failed, geopyRaises, infile, proceed, outfile, printed >>

\* the variables of main that the matching pass does not touch
mainVars == << infile, proceed, outfile, printed >>

\* ------------------------------------------------------------ input pool
Cafe == << "c", "a", "f", "e" >>
CafeRo == << "c", "a", "f", "e", " ", "r", "o" >>
CafeRoma == << "c", "a", "f", "e", " ", "r", "o", "m", "a" >>

\* float('nan'): latitudes are metres of arc from the origin, never
\* negative in the pool, and the one non-finite value is written -1
NaN == -1

\* the rows a dataset is drawn from: name, latitude, longitude
Pool ==
    { << Cafe, 0, 0 >>, << CafeRo, 0, 0 >>, << CafeRoma, 0, 0 >>,
      << Cafe, 200, 0 >>, << Cafe, 401, 0 >> }

\* the pool with a row whose latitude field reads nan
ErrPool == Pool \cup { << Cafe, NaN, 0 >> }

\* --------------------------------------------------------- pure functions
Abs(x) == IF x < 0 THEN -x ELSE x

Min3(a, b, c) ==
    IF a <= b /\ a <= c THEN a ELSE IF b <= c THEN b ELSE c

\* Levenshtein.distance: insertions, deletions and substitutions
RECURSIVE Levenshtein_distance(_, _)
Levenshtein_distance(a, b) ==
    IF Len(a) = 0 THEN Len(b)
    ELSE IF Len(b) = 0 THEN Len(a)
    ELSE IF Head(a) = Head(b) THEN Levenshtein_distance(Tail(a), Tail(b))
    ELSE 1 + Min3(Levenshtein_distance(Tail(a), b),
                  Levenshtein_distance(a, Tail(b)),
                  Levenshtein_distance(Tail(a), Tail(b)))

\* great_circle(coord1, coord2).meters for two points of one meridian
distance_between_coordinates(coord1, coord2) ==
    IF coord1[1] = NaN \/ coord2[1] = NaN THEN NaN
    ELSE CASE coord1[2] = coord2[2] -> Abs(coord1[1] - coord2[1])

\* the name test with the comparison <= in place of <
is_name_similar_AtMost(name1, name2) ==
    Levenshtein_distance(name1, name2) <= MAX_EDITS

is_name_similar(name1, name2) ==
    Levenshtein_distance(name1, name2) < MAX_EDITS

\* the distance stage with the comparison >= in place of >
TooFar_AtLeast(distance) == distance # NaN /\ distance >= MAX_DISTANCE

\* line 63: the early return of the distance stage; a comparison with nan
\* is false
TooFar(distance) == distance # NaN /\ distance > MAX_DISTANCE

\* marking without line 73: only the first entry is marked
MarkBoth_OnlyLeft(a, b, es) ==
    [ r \in DOMAIN es |->
        IF r = a THEN [ es[r] EXCEPT !.is_similar = 1 ] ELSE es[r] ]

\* marking that flips the two flags instead of setting them
MarkBoth_Toggle(a, b, es) ==
    [ r \in DOMAIN es |->
        IF r = a \/ r = b
        THEN [ es[r] EXCEPT !.is_similar = 1 - es[r].is_similar ]
        ELSE es[r] ]

\* marking that also copies the name of the first entry to the second
MarkBoth_MergeName(a, b, es) ==
    [ r \in DOMAIN es |->
        IF r = a THEN [ es[r] EXCEPT !.is_similar = 1 ]
        ELSE IF r = b THEN [ es[r] EXCEPT !.is_similar = 1, !.name = es[a].name ]
        ELSE es[r] ]

\* lines 72-73: mark both entries
MarkBoth(a, b, es) ==
    [ r \in DOMAIN es |->
        IF r = a \/ r = b THEN [ es[r] EXCEPT !.is_similar = 1 ] ELSE es[r] ]

\* process_entries without its name stage
process_entries_NoNameTest(a, b, es) ==
    LET coord1 == << es[a].latitude, es[a].longitude >>
        coord2 == << es[b].latitude, es[b].longitude >>
    IN  IF TooFar(distance_between_coordinates(coord1, coord2)) THEN es
        ELSE MarkBoth(a, b, es)

\* process_entries storing the outcome of the tests in both flags
process_entries_Assign(a, b, es) ==
    LET coord1 == << es[a].latitude, es[a].longitude >>
        coord2 == << es[b].latitude, es[b].longitude >>
        match == /\ ~ TooFar(distance_between_coordinates(coord1, coord2))
                 /\ is_name_similar(es[a].name, es[b].name)
    IN  [ r \in DOMAIN es |->
            IF r = a \/ r = b
            THEN [ es[r] EXCEPT !.is_similar = IF match THEN 1 ELSE 0 ]
            ELSE es[r] ]

\* process_entries returning at once when its left entry is already marked
process_entries_SkipMarked(a, b, es) ==
    LET coord1 == << es[a].latitude, es[a].longitude >>
        coord2 == << es[b].latitude, es[b].longitude >>
    IN  IF es[a].is_similar = 1 THEN es
        ELSE IF TooFar(distance_between_coordinates(coord1, coord2)) THEN es
        ELSE IF ~ is_name_similar(es[a].name, es[b].name) THEN es
        ELSE MarkBoth(a, b, es)

\* one whole run of the task process_entries(i, j, entries): the new entries
process_entries(a, b, es) ==
    LET entry1 == es[a]
        entry2 == es[b]
        coord1 == << entry1.latitude, entry1.longitude >>
        coord2 == << entry2.latitude, entry2.longitude >>
        distance == distance_between_coordinates(coord1, coord2)
    IN  IF TooFar(distance) THEN es
        ELSE IF ~ is_name_similar(entry1.name, entry2.name) THEN es
        ELSE MarkBoth(a, b, es)

\* ------------------------------------------------------------------ main
\* lines 128-133: one entry per row, is_similar = 0
LoadRow(row) ==
    [ name |-> row[1], latitude |-> row[2], longitude |-> row[3], is_similar |-> 0 ]

\* the state in which the program is at position `start`, the rows of the
\* input file drawn from `pool`, at most `maxn` of them
InitAt(start, pool, maxn) ==
    /\ n \in 0 .. maxn
    /\ infile \in [ 0 .. n - 1 -> pool ]
    /\ entries = [ r \in 0 .. n - 1 |-> LoadRow(infile[r]) ]
    /\ CHUNKS \in 1 .. MaxChunks
    /\ tasks = << >>
    /\ counter = 0
    /\ i = 0
    /\ j = 0
    /\ pc = start
    /\ created = {}
    /\ executed = {}
    /\ entered = {}
    /\ batchNo = 0
    /\ ncreated = 0
    /\ skipped = {}
    /\ failed = {}
    /\ geopyRaises = FALSE
    /\ proceed = IF start = "input" THEN "" ELSE "y"
    /\ outfile = << >>
    /\ printed = << >>

\* line 149: main calls find_similar_entries(entries)
Init == InitAt("outer", Pool, MaxN)

\* -------------------------------------------------- find_similar_entries
Pending == created \ executed

ExecutedPairs == { t.p : t \in executed }

\* asyncio.gather(*tasks) is complete when every task of the list is done
GatherDone == \A k \in 1 .. Len(tasks) : tasks[k] \in ExecutedPairs

\* asyncio.gather(*tasks) raises when a task of the list ended with an exception
GatherFailed == \E k \in 1 .. Len(tasks) : tasks[k] \in { t.p : t \in failed }

\* lines 91-94: the row is skipped when its entry is already marked
SkipRow ==
    /\ pc = "outer"
    /\ i < n
    /\ entries[i].is_similar = 1
    /\ i' = i + 1
    /\ UNCHANGED << entries, CHUNKS, n, tasks, counter, j, pc,
                    created, executed, entered, batchNo >>
    /\ skipped' = skipped \cup { i }
    /\ UNCHANGED << ncreated, failed, geopyRaises >>
    /\ UNCHANGED mainVars

\* the inner loop starting at j = 0, as range(n)
EnterRow_FromStart ==
    /\ pc = "outer"
    /\ i < n
    /\ entries[i].is_similar # 1
    /\ j' = 0
    /\ pc' = "inner"
    /\ entered' = entered \cup { i }
    /\ UNCHANGED << entries, CHUNKS, n, tasks, counter, i,
                    created, executed, batchNo >>
    /\ UNCHANGED << ncreated, skipped, failed, geopyRaises >>
    /\ UNCHANGED mainVars

\* the inner loop starting at j = i, as range(i, n)
EnterRow_FromI ==
    /\ pc = "outer"
    /\ i < n
    /\ entries[i].is_similar # 1
    /\ j' = i
    /\ pc' = "inner"
    /\ entered' = entered \cup { i }
    /\ UNCHANGED << entries, CHUNKS, n, tasks, counter, i,
                    created, executed, batchNo >>
    /\ UNCHANGED << ncreated, skipped, failed, geopyRaises >>
    /\ UNCHANGED mainVars

\* lines 91-95: the row is entered, j starts at i + 1
EnterRow ==
    /\ pc = "outer"
    /\ i < n
    /\ entries[i].is_similar # 1
    /\ j' = i + 1
    /\ pc' = "inner"
    /\ entered' = entered \cup { i }
    /\ UNCHANGED << entries, CHUNKS, n, tasks, counter, i,
                    created, executed, batchNo >>
    /\ UNCHANGED << ncreated, skipped, failed, geopyRaises >>
    /\ UNCHANGED mainVars

\* the inner loop leaving the row as soon as entry i is marked
CreateTask_StopWhenMarked ==
    /\ pc = "inner"
    /\ j < n
    /\ IF entries[i].is_similar = 1
       THEN /\ i' = i + 1
            /\ pc' = "outer"
            /\ UNCHANGED << tasks, created, counter, j, ncreated >>
       ELSE /\ tasks' = Append(tasks, << i, j >>)
            /\ created' = created \cup { [ p |-> << i, j >>, b |-> batchNo ] }
            /\ counter' = counter + 1
            /\ ncreated' = ncreated + 1
            /\ i' = i
            /\ IF counter + 1 = CHUNKS
               THEN pc' = "gather" /\ j' = j
               ELSE pc' = "inner" /\ j' = j + 1
    /\ UNCHANGED << entries, CHUNKS, n, executed, entered, batchNo >>
    /\ UNCHANGED << skipped, failed, geopyRaises >>
    /\ UNCHANGED mainVars

\* lines 95-101: create the task of (i, j); at CHUNKS tasks await the batch
CreateTask ==
    /\ pc = "inner"
    /\ j < n
    /\ tasks' = Append(tasks, << i, j >>)
    /\ created' = created \cup { [ p |-> << i, j >>, b |-> batchNo ] }
    /\ counter' = counter + 1
    /\ IF counter + 1 = CHUNKS
       THEN pc' = "gather" /\ j' = j
       ELSE pc' = "inner" /\ j' = j + 1
    /\ UNCHANGED << entries, CHUNKS, n, i, executed, entered, batchNo >>
    /\ ncreated' = ncreated + 1
    /\ UNCHANGED << skipped, failed, geopyRaises >>
    /\ UNCHANGED mainVars

\* line 95: range(i+1, n) is exhausted, the outer loop moves on
EndRow ==
    /\ pc = "inner"
    /\ j >= n
    /\ i' = i + 1
    /\ pc' = "outer"
    /\ UNCHANGED << entries, CHUNKS, n, tasks, counter, j,
                    created, executed, entered, batchNo >>
    /\ UNCHANGED << ncreated, skipped, failed, geopyRaises >>
    /\ UNCHANGED mainVars

\* a coordinate of the pair is not finite
BadPair(a, b) == entries[a].latitude = NaN \/ entries[b].latitude = NaN

\* a task may run as soon as it is created, the driver not suspended
RunTask_Eager ==
    /\ pc \in { "outer", "inner", "gather", "final" }
    /\ \E t \in Pending :
          /\ ~ (geopyRaises /\ BadPair(t.p[1], t.p[2]))
          /\ entries' = process_entries(t.p[1], t.p[2], entries)
          /\ executed' = executed \cup { t }
    /\ UNCHANGED << CHUNKS, n, tasks, counter, i, j, pc,
                    created, entered, batchNo >>
    /\ UNCHANGED << ncreated, skipped, failed, geopyRaises >>
    /\ UNCHANGED mainVars

\* the event loop runs one scheduled task while the driver is suspended
RunTask ==
    /\ pc \in { "gather", "final" }
    /\ \E t \in Pending :
          /\ ~ (geopyRaises /\ BadPair(t.p[1], t.p[2]))
          /\ entries' = process_entries(t.p[1], t.p[2], entries)
          /\ executed' = executed \cup { t }
    /\ UNCHANGED << CHUNKS, n, tasks, counter, i, j, pc,
                    created, entered, batchNo >>
    /\ UNCHANGED << ncreated, skipped, failed, geopyRaises >>
    /\ UNCHANGED mainVars

\* the batch boundary without the reset of counter
GatherReturn_KeepCounter ==
    /\ pc = "gather"
    /\ GatherDone
    /\ ~ GatherFailed
    /\ counter' = counter
    /\ tasks' = << >>
    /\ j' = j + 1
    /\ pc' = "inner"
    /\ batchNo' = batchNo + 1
    /\ UNCHANGED << entries, CHUNKS, n, i, created, executed, entered >>
    /\ UNCHANGED << ncreated, skipped, failed, geopyRaises >>
    /\ UNCHANGED mainVars

\* the batch boundary without the await of the gather
GatherReturn_NoWait ==
    /\ pc = "gather"
    /\ counter' = 0
    /\ tasks' = << >>
    /\ j' = j + 1
    /\ pc' = "inner"
    /\ batchNo' = batchNo + 1
    /\ UNCHANGED << entries, CHUNKS, n, i, created, executed, entered >>
    /\ UNCHANGED << ncreated, skipped, failed, geopyRaises >>
    /\ UNCHANGED mainVars

\* lines 102-104: the gather of a full batch returns, counter and list reset
GatherReturn ==
    /\ pc = "gather"
    /\ GatherDone
    /\ ~ GatherFailed
    /\ counter' = 0
    /\ tasks' = << >>
    /\ j' = j + 1
    /\ pc' = "inner"
    /\ batchNo' = batchNo + 1
    /\ UNCHANGED << entries, CHUNKS, n, i, created, executed, entered >>
    /\ UNCHANGED << ncreated, skipped, failed, geopyRaises >>
    /\ UNCHANGED mainVars

\* the end of the loops without the gather of the remaining tasks
ExitLoop_NoFinalGather ==
    /\ pc = "outer"
    /\ i >= n
    /\ pc' = "done"
    /\ UNCHANGED << entries, CHUNKS, n, tasks, counter, i, j,
                    created, executed, entered, batchNo >>
    /\ UNCHANGED << ncreated, skipped, failed, geopyRaises >>
    /\ UNCHANGED mainVars

\* lines 106-109: after the loops, await the remaining tasks if there are any
ExitLoop ==
    /\ pc = "outer"
    /\ i >= n
    /\ pc' = IF counter # 0 THEN "final" ELSE "done"
    /\ UNCHANGED << entries, CHUNKS, n, tasks, counter, i, j,
                    created, executed, entered, batchNo >>
    /\ UNCHANGED << ncreated, skipped, failed, geopyRaises >>
    /\ UNCHANGED mainVars

\* line 109: the final gather returns and find_similar_entries returns
FinalReturn ==
    /\ pc = "final"
    /\ GatherDone
    /\ ~ GatherFailed
    /\ pc' = "done"
    /\ batchNo' = batchNo + 1
    /\ UNCHANGED << entries, CHUNKS, n, tasks, counter, i, j,
                    created, executed, entered >>
    /\ UNCHANGED << ncreated, skipped, failed, geopyRaises >>
    /\ UNCHANGED mainVars

Next ==
    \/ SkipRow
    \/ EnterRow
    \/ CreateTask
    \/ EndRow
    \/ RunTask
    \/ GatherReturn
    \/ ExitLoop
    \/ FinalReturn

Spec == Init /\ [][Next]_vars

\* the event loop keeps running ready tasks and resumes the driver
FairSpec == Spec /\ WF_vars(Next)

\* ------------------------------------------- non-finite coordinates
\* line 60 with geopy 2: great_circle raises ValueError, the task ends with
\* the exception and no flag is written
TaskRaises ==
    /\ pc \in { "gather", "final" }
    /\ geopyRaises
    /\ \E t \in Pending :
          /\ BadPair(t.p[1], t.p[2])
          /\ executed' = executed \cup { t }
          /\ failed' = failed \cup { t }
    /\ UNCHANGED << entries, CHUNKS, n, tasks, counter, i, j, pc,
                    created, entered, batchNo, ncreated, skipped, geopyRaises >>
    /\ UNCHANGED mainVars

\* lines 102 and 109: the tasks of the batch have all run in the loop
\* iteration that follows the suspension of the driver, gather hands the
\* exception to the driver, find_similar_entries and main end with it
GatherRaises ==
    /\ pc \in { "gather", "final" }
    /\ GatherDone
    /\ GatherFailed
    /\ pc' = "raised"
    /\ UNCHANGED << entries, CHUNKS, n, tasks, counter, i, j,
                    created, executed, entered, batchNo,
                    ncreated, skipped, failed, geopyRaises >>
    /\ UNCHANGED mainVars

\* the matching pass on input with a non-finite latitude, under either geopy
ErrInit ==
    /\ n \in 0 .. MaxErrN
    /\ infile \in [ 0 .. n - 1 -> ErrPool ]
    /\ entries = [ r \in 0 .. n - 1 |-> LoadRow(infile[r]) ]
    /\ CHUNKS \in 1 .. MaxChunks
    /\ geopyRaises \in BOOLEAN
    /\ tasks = << >>
    /\ counter = 0
    /\ i = 0
    /\ j = 0
    /\ pc = "outer"
    /\ created = {}
    /\ executed = {}
    /\ entered = {}
    /\ batchNo = 0
    /\ ncreated = 0
    /\ skipped = {}
    /\ failed = {}
    /\ proceed = "y"
    /\ outfile = << >>
    /\ printed = << >>

ErrNext ==
    \/ Next
    \/ TaskRaises
    \/ GatherRaises

ErrSpec == ErrInit /\ [][ErrNext]_vars

\* ------------------------------------------------------------------ main
\* what the user may type at the prompt
Answers == { "y", "n", "Y", "N", "x" }

\* str.lower on the answers
Lower(answer) ==
    CASE answer = "Y" -> "y"
      [] answer = "N" -> "n"
      [] OTHER -> answer

ErrorMessage == "An error occurred while writing to the file"
WrittenMessage == "Data Written to file: "

\* line 140: the first prompt
FirstInput ==
    /\ pc = "input"
    /\ proceed' \in Answers
    /\ pc' = "while"
    /\ UNCHANGED << entries, CHUNKS, n, tasks, counter, i, j,
                    created, executed, entered, batchNo,
                    ncreated, skipped, failed, geopyRaises, infile, outfile, printed >>

\* lines 141-146: one iteration of the confirmation loop
Confirm ==
    /\ pc = "while"
    /\ IF ~ (Lower(proceed) # "y" \/ Lower(proceed) # "n")
       THEN pc' = "outer" /\ proceed' = proceed
       ELSE IF proceed = "n"
       THEN pc' = "exit" /\ proceed' = proceed
       ELSE IF proceed = "y"
       THEN pc' = "outer" /\ proceed' = proceed
       ELSE pc' = "while" /\ proceed' \in Answers
    /\ UNCHANGED << entries, CHUNKS, n, tasks, counter, i, j,
                    created, executed, entered, batchNo,
                    ncreated, skipped, failed, geopyRaises, infile, outfile, printed >>

\* lines 153-156: the output file is opened and the header written
OpenOutput ==
    /\ pc = "done"
    /\ outfile' = << >>
    /\ pc' = "rows"
    /\ UNCHANGED << entries, CHUNKS, n, tasks, counter, i, j,
                    created, executed, entered, batchNo,
                    ncreated, skipped, failed, geopyRaises, infile, proceed, printed >>

\* lines 157-158: the next entry is written
WriteRow ==
    /\ pc = "rows"
    /\ Len(outfile) < n
    /\ outfile' = Append(outfile, entries[Len(outfile)])
    /\ UNCHANGED << entries, CHUNKS, n, tasks, counter, i, j, pc,
                    created, executed, entered, batchNo,
                    ncreated, skipped, failed, geopyRaises, infile, proceed, printed >>

\* line 157: the loop over the entries ends and the file is closed
CloseOutput ==
    /\ pc = "rows"
    /\ Len(outfile) >= n
    /\ pc' = "report"
    /\ UNCHANGED << entries, CHUNKS, n, tasks, counter, i, j,
                    created, executed, entered, batchNo,
                    ncreated, skipped, failed, geopyRaises, infile, proceed, outfile, printed >>

\* lines 159-161: opening the file or writing a row raised, the error is printed
WriteFails ==
    /\ \/ pc = "done"
       \/ pc = "rows" /\ Len(outfile) < n
    /\ printed' = Append(printed, ErrorMessage)
    /\ pc' = "report"
    /\ UNCHANGED << entries, CHUNKS, n, tasks, counter, i, j,
                    created, executed, entered, batchNo,
                    ncreated, skipped, failed, geopyRaises, infile, proceed, outfile >>

\* line 163: the closing message of main
PrintWritten ==
    /\ pc = "report"
    /\ printed' = Append(printed, WrittenMessage)
    /\ pc' = "end"
    /\ UNCHANGED << entries, CHUNKS, n, tasks, counter, i, j,
                    created, executed, entered, batchNo,
                    ncreated, skipped, failed, geopyRaises, infile, proceed, outfile >>

\* main from the confirmation prompt on
MainInit == InitAt("input", Pool, MaxMainN)

MainNext ==
    \/ FirstInput
    \/ Confirm
    \/ Next
    \/ OpenOutput
    \/ WriteRow
    \/ CloseOutput
    \/ WriteFails
    \/ PrintWritten

MainSpec == MainInit /\ [][MainNext]_vars

\* ------------------------------------- process_entries on its own
\* any dataset of the pool with any flags; counter counts the consecutive
\* runs of process_entries on the pair (i, j), up to 2
IdemInit ==
    /\ n \in 0 .. MaxIdemN
    /\ infile \in [ 0 .. n - 1 -> Pool ]
    /\ entries \in { [ r \in 0 .. n - 1 |->
                         [ LoadRow(infile[r]) EXCEPT !.is_similar = flags[r] ] ] :
                     flags \in [ 0 .. n - 1 -> { 0, 1 } ] }
    /\ CHUNKS = 1
    /\ tasks = << >>
    /\ counter = 0
    /\ i = 0
    /\ j = 0
    /\ pc = "apply"
    /\ created = {}
    /\ executed = {}
    /\ entered = {}
    /\ batchNo = 0
    /\ ncreated = 0
    /\ skipped = {}
    /\ failed = {}
    /\ geopyRaises = FALSE
    /\ proceed = "y"
    /\ outfile = << >>
    /\ printed = << >>

\* one run of process_entries(a, b, entries) on any two distinct indices
ApplyPair ==
    /\ pc = "apply"
    /\ \E a, b \in DOMAIN entries :
          /\ a # b
          /\ entries' = process_entries(a, b, entries)
          /\ i' = a
          /\ j' = b
          /\ counter' = IF counter >= 1 /\ a = i /\ b = j THEN 2 ELSE 1
    /\ UNCHANGED << CHUNKS, n, tasks, pc, created, executed, entered, batchNo,
                    ncreated, skipped, failed, geopyRaises, infile, proceed, outfile, printed >>

IdemNext == ApplyPair

IdemSpec == IdemInit /\ [][IdemNext]_vars

\* ------------------------------------------------- vocabulary of the claims
Coord(r) == << entries[r].latitude, entries[r].longitude >>

PairDistance(a, b) == distance_between_coordinates(Coord(a), Coord(b))

PairEdits(a, b) == Levenshtein_distance(entries[a].name, entries[b].name)

\* the pair passes both tests of process_entries
Matches(a, b) ==
    /\ ~ TooFar(PairDistance(a, b))
    /\ is_name_similar(entries[a].name, entries[b].name)

Flagged(r) == entries[r].is_similar = 1

\* the task t runs in this step
RunsNow(t) == t \notin executed /\ t \in executed'

\* the types of the state of Spec
TypeOK ==
    /\ n \in 0 .. MaxN
    /\ DOMAIN entries = 0 .. n - 1
    /\ \A r \in DOMAIN entries : entries[r].is_similar \in { 0, 1 }
    /\ pc \in { "outer", "inner", "gather", "final", "done" }
    /\ counter \in 0 .. CHUNKS
    /\ executed \subseteq created

\* ------------------------------------------------------------------ C1
\* C1: when find_similar_entries has returned, every record that belongs to
\* at least one matching pair has is_similar = 1.
C1_AllMatchedFlagged ==
    pc = "done" =>
        \A r \in DOMAIN entries :
            (\E s \in DOMAIN entries : s # r /\ Matches(r, s)) => Flagged(r)

\* ------------------------------------------------------------------ C2
C2_FlagJustified ==
    \A r \in DOMAIN entries :
        Flagged(r) =>
            \E t \in executed :
                r \in { t.p[1], t.p[2] } /\ Matches(t.p[1], t.p[2])

C2_FailLeavesFlags ==
    \A t \in created :
        (RunsNow(t) /\ ~ Matches(t.p[1], t.p[2])) => entries' = entries

\* C2: a record has is_similar = 1 only if some pair containing it was run
\* by process_entries and passed both tests, and a run of process_entries on
\* a pair that fails a test changes no flag.
C2_OnlyMatchesFlag == [] C2_FlagJustified /\ [][C2_FailLeavesFlags]_vars

C2_Witness ==
    /\ \E r \in DOMAIN entries : Flagged(r)
    /\ \E t \in executed :
          ~ Matches(t.p[1], t.p[2]) /\ ~ Flagged(t.p[1]) /\ ~ Flagged(t.p[2])

\* ------------------------------------------------------------------ C3
\* C3: when find_similar_entries has returned, every row i whose pruning
\* check found is_similar = 0 has had process_entries(i, j) run for every j
\* with i < j < n, also when i was marked while its row was enumerated.
C3_EnteredRowsComplete ==
    pc = "done" =>
        \A a \in entered :
            \A b \in a + 1 .. n - 1 : << a, b >> \in ExecutedPairs

\* row a was marked by an earlier batch of its own row, and a later pair of
\* the row, whose right record was already marked too, still ran
C3_Witness ==
    /\ pc = "done"
    /\ \E t1, t2, t3 \in executed :
          /\ t1.p[1] \in entered
          /\ t1.p[1] = t2.p[1]
          /\ t1.b < t2.b
          /\ Matches(t1.p[1], t1.p[2])
          /\ t3.b < t2.b
          /\ t2.p[2] \in { t3.p[1], t3.p[2] }
          /\ Matches(t3.p[1], t3.p[2])

\* ------------------------------------------------------------------ C4
\* C4 as stated: a run of process_entries on a pair whose distance is
\* exactly MAX_DISTANCE sets no flag.
C4_EqualDistanceNoMatch ==
    [][ \A t \in created :
          (RunsNow(t) /\ PairDistance(t.p[1], t.p[2]) = MAX_DISTANCE)
              => entries' = entries ]_vars

\* C4 amended: a pair whose distance is exactly MAX_DISTANCE passes the
\* distance stage: a run of process_entries on it marks both records when
\* the edit distance of the names is below MAX_EDITS and changes no flag
\* otherwise.
C4_EqualDistancePasses ==
    [][ \A t \in created :
          (RunsNow(t) /\ PairDistance(t.p[1], t.p[2]) = MAX_DISTANCE)
              => IF PairEdits(t.p[1], t.p[2]) < MAX_EDITS
                 THEN /\ entries'[t.p[1]].is_similar = 1
                      /\ entries'[t.p[2]].is_similar = 1
                 ELSE entries' = entries ]_vars

C4_Witness ==
    \E t \in executed :
        /\ PairDistance(t.p[1], t.p[2]) = MAX_DISTANCE
        /\ PairEdits(t.p[1], t.p[2]) < MAX_EDITS
        /\ Flagged(t.p[1])
        /\ Flagged(t.p[2])
        /\ \A u \in executed : u = t

\* ------------------------------------------------------------------ C5
\* a run on a pair that passes the distance stage marks both records
\* exactly when the edit distance of the names is below MAX_EDITS
C5_SimilarIffBelow ==
    \A t \in created :
        (RunsNow(t) /\ PairDistance(t.p[1], t.p[2]) <= MAX_DISTANCE)
            => IF PairEdits(t.p[1], t.p[2]) < MAX_EDITS
               THEN /\ entries'[t.p[1]].is_similar = 1
                    /\ entries'[t.p[2]].is_similar = 1
               ELSE entries' = entries

C5_EqualEditsLeavesFlags ==
    \A t \in created :
        (RunsNow(t) /\ PairEdits(t.p[1], t.p[2]) = MAX_EDITS)
            => entries' = entries

\* C5: the name stage passes exactly when the edit distance is below
\* MAX_EDITS, and a run of process_entries on a pair whose edit distance is
\* exactly MAX_EDITS sets no flag, whatever the distance of the pair.
C5_EqualEditsNoMatch ==
    [][C5_SimilarIffBelow /\ C5_EqualEditsLeavesFlags]_vars

C5_Witness ==
    \E t \in executed :
        /\ PairEdits(t.p[1], t.p[2]) = MAX_EDITS
        /\ PairDistance(t.p[1], t.p[2]) = 0
        /\ ~ Flagged(t.p[1])
        /\ ~ Flagged(t.p[2])

\* ------------------------------------------------------------------ C6
C6_StartsUnflagged ==
    created = {} => \A r \in DOMAIN entries : entries[r].is_similar = 0

C6_StepKeepsFlags ==
    \A r \in DOMAIN entries : Flagged(r) => entries'[r].is_similar = 1

\* C6: every record starts the pass with is_similar = 0, and no step of the
\* driver or of a task takes a record from is_similar = 1 to another value.
C6_FlagsMonotonic == [] C6_StartsUnflagged /\ [][C6_StepKeepsFlags]_vars

\* a marked record was later the member of a pair that fails a test
C6_Witness ==
    \E t1, t2 \in executed :
        /\ t1.b < t2.b
        /\ Matches(t1.p[1], t1.p[2])
        /\ ~ Matches(t2.p[1], t2.p[2])
        /\ { t1.p[1], t1.p[2] } \cap { t2.p[1], t2.p[2] } # {}
        /\ \A r \in { t1.p[1], t1.p[2] } : Flagged(r)

\* ------------------------------------------------------------------ C7
\* C7: the number of tasks created and not yet completed never exceeds
\* CHUNKS.
C7_InFlightBounded == Cardinality(Pending) <= CHUNKS

C7_Witness == Cardinality(Pending) = CHUNKS /\ batchNo >= 1 /\ CHUNKS >= 2

\* ------------------------------------------------------------------ C8
C8_OneBatchInFlight == \A t \in Pending : t.b = batchNo

C8_ResumeAfterAll ==
    (pc = "gather" /\ pc' = "inner") =>
        /\ Pending = {}
        /\ Len(tasks) = CHUNKS
        /\ \A k \in 1 .. Len(tasks) : tasks[k] \in ExecutedPairs

\* C8: every task in flight belongs to the batch being collected, no task
\* of an earlier batch is still in flight, and the driver resumes the
\* enumeration after a full batch only when all CHUNKS tasks have finished.
C8_Barrier == [] C8_OneBatchInFlight /\ [][C8_ResumeAfterAll]_vars

C8_Witness == batchNo >= 2 /\ Pending # {} /\ pc = "gather"

\* ------------------------------------------------------------------ C9
C9_AllCompleteAtReturn ==
    pc = "done" => (Pending = {} /\ GatherDone)

\* C9: find_similar_entries returns, and at its return every task it
\* created has completed, the tasks of a final partial batch included.
C9_Terminates == <>(pc = "done") /\ [] C9_AllCompleteAtReturn

C9_Witness ==
    /\ pc = "done"
    /\ batchNo >= 2
    /\ Len(tasks) >= 1
    /\ Len(tasks) < CHUNKS
    /\ created = executed

\* ----------------------------------------------------------------- C10
\* the batch runs in creation order
RECURSIVE RunInOrder(_, _)
RunInOrder(batch, es) ==
    IF batch = << >> THEN es
    ELSE RunInOrder(Tail(batch),
                    process_entries(Head(batch)[1], Head(batch)[2], es))

\* find_similar_entries with the batch size c and every batch run in
\* creation order; b = -1 stands for the pruning check of row a
RECURSIVE InOrderPassWith(_, _, _, _, _)
InOrderPassWith(c, a, b, batch, es) ==
    IF a >= n THEN RunInOrder(batch, es)
    ELSE IF b = -1
         THEN IF es[a].is_similar = 1
              THEN InOrderPassWith(c, a + 1, -1, batch, es)
              ELSE InOrderPassWith(c, a, a + 1, batch, es)
    ELSE IF b >= n THEN InOrderPassWith(c, a + 1, -1, batch, es)
    ELSE IF Len(batch) + 1 = c
         THEN InOrderPassWith(c, a, b + 1, << >>,
                              RunInOrder(Append(batch, << a, b >>), es))
         ELSE InOrderPassWith(c, a, b + 1, Append(batch, << a, b >>), es)

\* the same with the batch size of the run
InOrderPass(a, b, batch, es) == InOrderPassWith(CHUNKS, a, b, batch, es)

Unflagged == [ r \in DOMAIN entries |-> [ entries[r] EXCEPT !.is_similar = 0 ] ]

\* C10: whatever order the tasks of each batch ran in, the final flags are
\* those of the pass that runs every batch in creation order.
C10_OrderIndependent ==
    pc = "done" => entries = InOrderPass(0, -1, << >>, Unflagged)

\* two matching tasks of one batch wrote the flag of the same record
C10_Witness ==
    /\ pc = "done"
    /\ \E t1, t2 \in executed :
          /\ t1 # t2
          /\ t1.b = t2.b
          /\ { t1.p[1], t1.p[2] } \cap { t2.p[1], t2.p[2] } # {}
          /\ Matches(t1.p[1], t1.p[2])
          /\ Matches(t2.p[1], t2.p[2])

\* ----------------------------------------------------------------- C11
C11_Frame ==
    /\ DOMAIN entries' = DOMAIN entries
    /\ \A r \in DOMAIN entries :
          /\ entries'[r].name = entries[r].name
          /\ entries'[r].latitude = entries[r].latitude
          /\ entries'[r].longitude = entries[r].longitude
    /\ \A t \in created :
          RunsNow(t) =>
              \A r \in DOMAIN entries \ { t.p[1], t.p[2] } :
                  entries'[r] = entries[r]
    /\ (\A t \in created : ~ RunsNow(t)) => entries' = entries

C11_OutputInInputOrder ==
    /\ Len(outfile) <= n
    /\ DOMAIN entries = 0 .. n - 1
    /\ \A k \in 1 .. Len(outfile) :
          /\ outfile[k].name = infile[k - 1][1]
          /\ outfile[k].latitude = infile[k - 1][2]
          /\ outfile[k].longitude = infile[k - 1][3]
          /\ outfile[k].is_similar = entries[k - 1].is_similar

\* C11: a run of process_entries(i, j) changes nothing but the is_similar
\* fields of records i and j, no other step changes an entry, the length
\* and the order of the dataset never change, and the rows of the output
\* file are the rows of the input file in input order.
C11_OnlyFlagsChange == [] C11_OutputInInputOrder /\ [][C11_Frame]_vars

C11_Witness ==
    /\ pc = "end"
    /\ n = MaxMainN
    /\ Len(outfile) = n
    /\ \E r, q \in DOMAIN entries :
          /\ Flagged(r)
          /\ ~ Flagged(q)
          /\ infile[r] # infile[q]

\* ----------------------------------------------------------------- C12
\* C12: for a dataset of size 0 or 1 find_similar_entries creates no task,
\* runs no comparison, awaits no gather and leaves every flag at 0.
C12_SmallDatasetNoWork ==
    n <= 1 =>
        /\ ncreated = 0
        /\ created = {}
        /\ executed = {}
        /\ tasks = << >>
        /\ pc \notin { "gather", "final" }
        /\ batchNo = 0
        /\ \A r \in DOMAIN entries : entries[r].is_similar = 0

C12_Witness == pc = "done" /\ n = 1 /\ entered = { 0 }

\* ----------------------------------------------------------------- C13
\* C13: a run of process_entries(i, j) that directly follows a run of
\* process_entries(i, j) changes no entry: two runs leave the state that
\* one run leaves.
C13_Idempotent ==
    [][ (counter >= 1 /\ i' = i /\ j' = j /\ counter' = 2)
            => entries' = entries ]_vars

\* the second run of a matching pair has happened
C13_Witness ==
    /\ pc = "apply"
    /\ counter = 2
    /\ Matches(i, j)
    /\ Flagged(i)
    /\ Flagged(j)

\* ----------------------------------------------------------------- C14
\* C14: an answer equal to y or Y starts the matching pass, an answer equal
\* to n or N exits, every other answer causes a re-prompt.
C14_CaseInsensitive ==
    [][ pc = "while" =>
            IF Lower(proceed) = "y" THEN pc' = "outer"
            ELSE IF Lower(proceed) = "n" THEN pc' = "exit"
            ELSE pc' = "while" ]_vars

\* ----------------------------------------------------------------- C15
CreatedPairs == { t.p : t \in created }

\* a row is skipped only when its entry is marked at the pruning check and
\* entered only when it is not
C15_PruneByFlag ==
    /\ \A a \in skipped' \ skipped : a = i /\ Flagged(a)
    /\ \A a \in entered' \ entered : a = i /\ ~ Flagged(a)

\* every created pair is (a, b) with a < b, and no pair is created twice
C15_PairsOrderedOnce ==
    /\ \A t \in created : 0 <= t.p[1] /\ t.p[1] < t.p[2] /\ t.p[2] < n
    /\ Cardinality(CreatedPairs) = ncreated
    /\ Cardinality(created) = ncreated

\* at the return a row is either skipped, with none of its pairs created, or
\* entered, with all its n-1-i pairs created; without pruning the pass has
\* run n(n-1)/2 pairs
C15_RowsWhole ==
    pc = "done" =>
        /\ skipped \cap entered = {}
        /\ skipped \cup entered = 0 .. n - 1
        /\ \A a \in skipped : \A t \in created : t.p[1] # a
        /\ \A a \in entered :
              Cardinality({ t \in created : t.p[1] = a }) = n - 1 - a
        /\ skipped = {} =>
              /\ 2 * ncreated = n * (n - 1)
              /\ 2 * Cardinality(executed) = n * (n - 1)

\* C15: rows are enumerated all-or-nothing, decided by the flag of i at the
\* pruning check; every created pair has i < j and none is created twice; a
\* pass without a pruned row runs exactly n(n-1)/2 pairs.
C15_AllOrNothingRows ==
    [] (C15_PairsOrderedOnce /\ C15_RowsWhole) /\ [][C15_PruneByFlag]_vars

\* a row was pruned and a later row was enumerated
C15_Witness ==
    /\ pc = "done"
    /\ \E a \in skipped : \E b \in entered : a < b /\ b < n - 1

\* ----------------------------------------------------------------- C16
\* a task runs, and a flag changes, only in a step that leaves the driver
\* suspended in a gather
C16_RunOnlyAtGather ==
    (entries' # entries \/ executed' # executed) =>
        pc \in { "gather", "final" } /\ pc' = pc

\* while the driver enumerates, the tasks that have run are exactly the
\* tasks of the batches already collected
C16_OnlyCompletedBatches ==
    pc \in { "outer", "inner" } =>
        /\ \A t \in executed : t.b < batchNo
        /\ \A t \in created : t.b < batchNo => t \in executed

\* C16: no task runs and no flag changes between the creation of a task and
\* the next await of asyncio.gather, so the pruning check of a row reads
\* only flags written by batches that have completed.
C16_FlagsChangeAtBarrier ==
    [] C16_OnlyCompletedBatches /\ [][C16_RunOnlyAtGather]_vars

\* a row is pruned on a flag of a completed batch while tasks of the current
\* batch are created and have not run
C16_Witness ==
    /\ pc = "outer"
    /\ i - 1 \in skipped
    /\ Pending # {}
    /\ \A t \in Pending : t.b = batchNo

\* ----------------------------------------------------------------- C17
C17_ErrorLeavesFlags ==
    \A t \in created :
        (RunsNow(t) /\ BadPair(t.p[1], t.p[2])) => entries' = entries

\* C17: a run of process_entries on a pair whose distance computation gives
\* a non-finite result or fails sets no flag, and the pass goes on: it never
\* ends with the exception.
C17_ErrorIsNoMatch == [][C17_ErrorLeavesFlags]_vars /\ [] (pc # "raised")

\* ----------------------------------------------------------------- C18
\* C18: the final flags are those that find_similar_entries leaves with any
\* other batch size.
C18_ChunksIndependent ==
    pc = "done" =>
        \A c \in 1 .. MaxChunks :
            entries = InOrderPassWith(c, 0, -1, << >>, Unflagged)
\* ----------------------------------------------------------------- C19
\* C19: when n(n-1)/2 < CHUNKS no row is pruned and the driver awaits no
\* gather inside the loops; at the return every one of the n(n-1)/2 pairs
\* has been created once and run in the single final batch, and a record is
\* flagged exactly when it has a partner that passes both tests.
C19_SingleBatchExact ==
    n * (n - 1) < 2 * CHUNKS =>
        /\ skipped = {}
        /\ pc # "gather"
        /\ \A t \in created : t.b = 0
        /\ Cardinality(created) = ncreated
        /\ pc = "done" =>
              /\ entered = 0 .. n - 1
              /\ 2 * ncreated = n * (n - 1)
              /\ executed = created
              /\ \A a, b \in DOMAIN entries :
                    a < b => << a, b >> \in ExecutedPairs
              /\ \A r \in DOMAIN entries :
                    Flagged(r) <=>
                        \E q \in DOMAIN entries : q # r /\ Matches(r, q)

\* the chain 0-1, 1-2 without 0-2, all in one final batch: row 1 is not
\* pruned and record 2 is flagged
C19_Witness ==
    /\ pc = "done"
    /\ n = 3
    /\ n * (n - 1) < 2 * CHUNKS
    /\ Matches(0, 1)
    /\ Matches(1, 2)
    /\ ~ Matches(0, 2)
    /\ Flagged(2)
\* ----------------------------------------------------------------- C20
\* C20: the message 'Data Written to file' is printed only when every
\* record was written and no write error was reported.
C20_SuccessOnlyAfterWrite ==
    (\E k \in 1 .. Len(printed) : printed[k] = WrittenMessage) =>
        /\ Len(outfile) = n
        /\ \A k \in 1 .. Len(printed) : printed[k] # ErrorMessage
====
